---- MODULE Spec2Model ----
(***************************************************************************)
(* RepoActivity: commit-history analysis.  The model covers the            *)
(* aggregator (models.rs: RepositoryStats::new / add_commit), the walker   *)
(* and extractor (git.rs: analyze_repository, get_commits, process_commit, *)
(* git_time_to_datetime, parse_date) and the driver (main.rs: main).       *)
(*                                                                         *)
(* Time is counted in whole days since 1970-01-01T00:00:00Z, so the        *)
(* midnight a date string names and a commit timestamp are comparable      *)
(* naturals.  Option<T> is a sequence of length at most one.               *)
(***************************************************************************)
EXTENDS Integers, Sequences, FiniteSets, TLC

\* ------------------------------------------------------------------ bounds
MaxTime == 2      \* instants representable by DateTime<Utc> are 0..MaxTime
MaxLines == 1     \* largest lines_added / lines_removed of a folded record
MaxFold == 2      \* longest sequence of add_commit calls explored on its own
MaxWalk == 2      \* largest number of commits reachable from HEAD
MaxTreeLines == 2 \* most lines of the file a tree holds
MaxParents == 2   \* most parents of a commit

None == <<>>
Some(x) == <<x>>

Times == 0..MaxTime
\* a raw git timestamp: representable, or beyond what from_timestamp accepts
GitTimes == 0..(MaxTime + 1)

AuthorNames == {"alice", "bob"}
\* addresses an author name is seen with; one name may come with two addresses
EmailsOf(a) == IF a = "alice" THEN {"a@x", "a@y"} ELSE {"b@x"}

VARIABLES
    clock,            \* last value read from Utc::now()
    start_date_str,   \* Args.start_date : Option<String>
    end_date_str,     \* Args.end_date   : Option<String>
    history_len,      \* commits reachable from HEAD in the repository at repo_path
    pc,               \* position of main / analyze_repository
    err,              \* the stage whose error ended the run, or "none"
    start_date,       \* analyze_repository: start_date : Option<DateTime>
    end_date,         \* analyze_repository: end_date   : Option<DateTime>
    opened,           \* Repository::open has been called
    stats,            \* analyze_repository: stats : Option<RepositoryStats>
    fresh,            \* the accumulator as new() returned it
    objs,             \* commit objects the revwalk has yielded, by oid = position
    commits,          \* get_commits: commits : Vec<Oid>
    idx,              \* analyze_repository: position of the for loop over commits
    errlog,           \* oids reported on stderr by "Error processing commit"
    saved,            \* arguments of the save_stats calls made so far
    printed,          \* arguments of the print_summary calls made so far
    diff_commit,      \* get_commit_diff_stats: the commit it is called on
    diff_stats        \* get_commit_diff_stats: what it returned

vars == <<clock, start_date_str, end_date_str, history_len, pc, err, start_date,
          end_date, opened, stats, fresh, objs, commits, idx, errlog, saved, printed,
          diff_commit, diff_stats>>

diffvars == <<diff_commit, diff_stats>>

runvars == <<start_date_str, end_date_str, history_len, pc, err, start_date,
             end_date, opened, objs, commits, idx, errlog, saved, printed>>

\* ------------------------------------------------------------- models.rs
\* CommitInfo; message and files_changed are carried but never read by the
\* aggregator and are left out.
CommitInfo(hash, author, email, date, lines_added, lines_removed) ==
    [hash |-> hash, author |-> author, email |-> email, date |-> date,
     lines_added |-> lines_added, lines_removed |-> lines_removed]

\* RepositoryStats::new: the two dates are two reads of Utc::now(), which at
\* the granularity of the model callers take to return the same instant
new(t1, t2) ==
    [total_commits |-> 0,
     total_lines_added |-> 0,
     total_lines_removed |-> 0,
     first_commit_date |-> t1,
     last_commit_date |-> t2,
     contributors |-> [a \in {} |-> 0],
     commits |-> <<>>]

\* add_commit, lines 55-57: repository totals
UpdateTotalsNoRemoved(s, commit) ==
    [s EXCEPT !.total_commits = @ + 1,
              !.total_lines_added = @ + commit.lines_added]

UpdateTotals(s, commit) ==
    [s EXCEPT !.total_commits = @ + 1,
              !.total_lines_added = @ + commit.lines_added,
              !.total_lines_removed = @ + commit.lines_removed]

\* add_commit, lines 60-62 (runs after total_commits was incremented)
UpdateFirst(s, commit) ==
    IF s.total_commits = 1 \/ commit.date < s.first_commit_date
    THEN [s EXCEPT !.first_commit_date = commit.date]
    ELSE s

\* add_commit, lines 63-65
UpdateLastFlipped(s, commit) ==
    IF commit.date < s.last_commit_date
    THEN [s EXCEPT !.last_commit_date = commit.date]
    ELSE s

UpdateLastOverwrite(s, commit) ==
    [s EXCEPT !.last_commit_date = commit.date]

UpdateLast(s, commit) ==
    IF commit.date > s.last_commit_date
    THEN [s EXCEPT !.last_commit_date = commit.date]
    ELSE s

\* add_commit, lines 68-76: entry(author).or_insert_with(..)
ContributorKeyEmail(commit) == commit.email

ContributorKey(commit) == commit.author

EntryOrInsert(contributors, commit) ==
    IF ContributorKey(commit) \in DOMAIN contributors
    THEN contributors[ContributorKey(commit)]
    ELSE [commits |-> 0, lines_added |-> 0, lines_removed |-> 0,
          first_commit |-> commit.date, last_commit |-> commit.date]

\* add_commit, lines 78-87
UpdateEntry(e, commit) ==
    [commits |-> e.commits + 1,
     lines_added |-> e.lines_added + commit.lines_added,
     lines_removed |-> e.lines_removed + commit.lines_removed,
     first_commit |-> IF commit.date < e.first_commit THEN commit.date ELSE e.first_commit,
     last_commit |-> IF commit.date > e.last_commit THEN commit.date ELSE e.last_commit]

UpdateContributors(s, commit) ==
    LET k == ContributorKey(commit)
        e == UpdateEntry(EntryOrInsert(s.contributors, commit), commit)
    IN [s EXCEPT !.contributors =
            [a \in (DOMAIN s.contributors) \cup {k} |->
                IF a = k THEN e ELSE s.contributors[a]]]

\* RepositoryStats::add_commit
add_commit(s, commit) ==
    LET s1 == UpdateTotals(s, commit)
        s2 == UpdateFirst(s1, commit)
        s3 == UpdateLast(s2, commit)
        s4 == UpdateContributors(s3, commit)
    IN [s4 EXCEPT !.commits = Append(@, commit)]

\* ------------------------------------------------ the aggregator on its own
\* Records a caller may hand to add_commit.
LinePairs == {0, MaxLines} \X {0, MaxLines}

FoldRecords(hash) ==
    UNION {{CommitInfo(hash, a, e, d, p[1], p[2]) :
                e \in EmailsOf(a), d \in Times, p \in LinePairs} : a \in AuthorNames}

InitFold ==
    /\ \E now \in Times :
          /\ stats = Some(new(now, now))
          /\ fresh = stats
          /\ clock = now
    /\ start_date_str = None /\ end_date_str = None
    /\ history_len = 0
    /\ pc = "fold" /\ err = "none"
    /\ start_date = None /\ end_date = None
    /\ opened = FALSE
    /\ objs = <<>> /\ commits = <<>> /\ idx = 0 /\ errlog = <<>>
    /\ saved = <<>> /\ printed = <<>>
    /\ diff_commit = None /\ diff_stats = None

\* one call of add_commit by a caller of the library
FoldAdd ==
    /\ UNCHANGED diffvars
    /\ pc = "fold"
    /\ stats[1].total_commits < MaxFold
    /\ \E c \in FoldRecords(stats[1].total_commits + 1) :
          stats' = Some(add_commit(stats[1], c))
    /\ UNCHANGED <<clock, fresh, runvars>>

NextFold == FoldAdd

SpecFold == InitFold /\ [][NextFold]_vars

\* ------------------------------------------------------------------ git.rs
\* A date string, by its parts: "1970-01-02" is y 1970, m 1, d 2, sep "-".
DateStrings ==
    {[y |-> 1970, m |-> 1, d |-> 2, sep |-> "-"],
     [y |-> 1970, m |-> 1, d |-> 2, sep |-> "/"],
     [y |-> 1970, m |-> 2, d |-> 30, sep |-> "-"]}

DateArgs == {None} \cup {Some(s) : s \in DateStrings}

IsLeap(y) == y % 4 = 0 /\ (y % 100 # 0 \/ y % 400 = 0)

DaysInMonth(y, m) ==
    IF m = 2 THEN (IF IsLeap(y) THEN 29 ELSE 28)
    ELSE IF m \in {4, 6, 9, 11} THEN 30 ELSE 31

RECURSIVE DaysBeforeMonth(_, _)
DaysBeforeMonth(y, m) ==
    IF m = 1 THEN 0 ELSE DaysBeforeMonth(y, m - 1) + DaysInMonth(y, m - 1)

\* midnight of y-m-d, in days since 1970-01-01
DaysFromEpoch(y, m, d) ==
    365 * (y - 1970) + Cardinality({k \in 1970..(y - 1) : IsLeap(k)})
        + DaysBeforeMonth(y, m) + (d - 1)

\* NaiveDate::parse_from_str(date_str, "%Y-%m-%d")
NaiveDateParses(s) ==
    /\ s.sep = "-"
    /\ s.m \in 1..12
    /\ s.d \in 1..DaysInMonth(s.y, s.m)

\* parse_date with a parser that takes any separator and clamps the fields
parse_date_lenient(s) ==
    [ok |-> TRUE, value |-> DaysFromEpoch(s.y, 1, 1)]

\* parse_date: Ok(midnight UTC of the date) or Err
parse_date(s) ==
    IF NaiveDateParses(s)
    THEN [ok |-> TRUE, value |-> DaysFromEpoch(s.y, s.m, s.d)]
    ELSE [ok |-> FALSE, value |-> 0]

\* git_time_to_datetime: DateTime::from_timestamp(time, 0), or the current
\* time when the timestamp is not representable
git_time_to_datetime(time, now) ==
    IF time \in Times THEN time ELSE now

\* the values Utc::now() may return inside git_time_to_datetime(time): the
\* clock is read only on the fallback path and never runs backwards
NowReads(time) == IF time \in Times THEN {clock} ELSE clock..MaxTime

\* the lines a diff hands to the line callback, by origin
Diffs == {<<"F", "+", "-", "+">>}

DiffResults == {[ok |-> FALSE, lines |-> <<>>]} \cup {[ok |-> TRUE, lines |-> d] : d \in Diffs}

\* a commit object of the repository: raw commit time, author signature
\* (the name may be absent), and what process_commit gets when it resolves
\* the commit and its trees and builds the diff (ok = FALSE: one of them fails)
CommitObjects ==
    [time : GitTimes, name : {None, Some("alice")}, email : {Some("a@x")},
     diff : DiffResults]

RECURSIVE CountOrigin(_, _)
CountOrigin(lines, origin) ==
    IF lines = <<>> THEN 0
    ELSE (IF Head(lines) = origin THEN 1 ELSE 0) + CountOrigin(Tail(lines), origin)

\* get_commit_diff_stats: '+' lines and '-' lines of the diff
get_commit_diff_stats(o) ==
    [lines_added |-> CountOrigin(o.diff.lines, "+"),
     lines_removed |-> CountOrigin(o.diff.lines, "-")]

UnwrapOr(opt, default) == IF opt = None THEN default ELSE opt[1]

\* process_commit: Ok(CommitInfo) or Err
process_commit(oid, now) ==
    LET o == objs[oid] IN
    IF o.diff.ok
    THEN [ok |-> TRUE,
          info |-> CommitInfo(oid, UnwrapOr(o.name, "Unknown"), UnwrapOr(o.email, "Unknown"),
                              git_time_to_datetime(o.time, now),
                              get_commit_diff_stats(o).lines_added,
                              get_commit_diff_stats(o).lines_removed)]
    ELSE [ok |-> FALSE, info |-> None]

\* get_commits, lines 69-79: the date filters
PassesFilter(dt) ==
    /\ (start_date # None => ~(dt < start_date[1]))
    /\ (end_date # None => ~(dt > end_date[1]))

\* ------------------------------------------------------------------ main.rs
Init ==
    /\ clock = 0
    /\ start_date_str \in DateArgs
    /\ end_date_str \in DateArgs
    /\ history_len \in 0..MaxWalk
    /\ pc = "init_db" /\ err = "none"
    /\ start_date = None /\ end_date = None
    /\ opened = FALSE
    /\ stats = None /\ fresh = None
    /\ objs = <<>> /\ commits = <<>> /\ idx = 0 /\ errlog = <<>>
    /\ saved = <<>> /\ printed = <<>>
    /\ diff_commit = None /\ diff_stats = None

\* a `?` that returns the error of the given stage to main, which exits
Fail(stage) == pc' = "failed" /\ err' = stage

\* main: db::init_db()
init_db ==
    /\ UNCHANGED diffvars
    /\ pc = "init_db"
    /\ \/ pc' = "parse_start" /\ err' = err
       \/ Fail("db")
    /\ UNCHANGED <<clock, start_date_str, end_date_str, history_len, start_date, end_date,
                   opened, stats, fresh, objs, commits, idx, errlog, saved, printed>>

\* analyze_repository, lines 18-21
parse_start_date ==
    /\ UNCHANGED diffvars
    /\ pc = "parse_start"
    /\ IF start_date_str = None
       THEN start_date' = None /\ pc' = "parse_end" /\ err' = err
       ELSE IF parse_date(start_date_str[1]).ok
            THEN /\ start_date' = Some(parse_date(start_date_str[1]).value)
                 /\ pc' = "parse_end" /\ err' = err
            ELSE start_date' = start_date /\ Fail("date")
    /\ UNCHANGED <<clock, start_date_str, end_date_str, history_len, end_date,
                   opened, stats, fresh, objs, commits, idx, errlog, saved, printed>>

\* analyze_repository, lines 23-26
parse_end_date ==
    /\ UNCHANGED diffvars
    /\ pc = "parse_end"
    /\ IF end_date_str = None
       THEN end_date' = None /\ pc' = "open" /\ err' = err
       ELSE IF parse_date(end_date_str[1]).ok
            THEN /\ end_date' = Some(parse_date(end_date_str[1]).value)
                 /\ pc' = "open" /\ err' = err
            ELSE end_date' = end_date /\ Fail("date")
    /\ UNCHANGED <<clock, start_date_str, end_date_str, history_len, start_date,
                   opened, stats, fresh, objs, commits, idx, errlog, saved, printed>>

\* analyze_repository, lines 28-30: Repository::open
open_repository ==
    /\ UNCHANGED diffvars
    /\ pc = "open"
    /\ opened' = TRUE
    /\ \/ pc' = "new" /\ err' = err
       \/ Fail("open")
    /\ UNCHANGED <<clock, start_date_str, end_date_str, history_len, start_date, end_date,
                   stats, fresh, objs, commits, idx, errlog, saved, printed>>

\* analyze_repository, line 33: RepositoryStats::new
new_stats ==
    /\ UNCHANGED diffvars
    /\ pc = "new"
    /\ \E now \in clock..MaxTime :
          /\ stats' = Some(new(now, now))
          /\ fresh' = stats'
          /\ clock' = now
    /\ pc' = "get_commits"
    /\ UNCHANGED <<start_date_str, end_date_str, history_len, err, start_date, end_date,
                   opened, objs, commits, idx, errlog, saved, printed>>

\* get_commits, lines 56-57: repo.revwalk(), revwalk.push_head(); HEAD of a
\* repository without commits names a branch that does not exist yet
get_commits_begin ==
    /\ UNCHANGED diffvars
    /\ pc = "get_commits"
    /\ \/ Fail("revwalk")
       \/ IF history_len = 0
          THEN Fail("head")
          ELSE pc' = "walk" /\ err' = err
    /\ commits' = <<>>
    /\ UNCHANGED <<clock, start_date_str, end_date_str, history_len, start_date, end_date,
                   opened, stats, fresh, objs, idx, errlog, saved, printed>>

\* get_commits, lines 61-84: one iteration of `for oid_result in revwalk`,
\* or the end of the loop and the return of Ok(commits)
get_commits_next ==
    /\ UNCHANGED diffvars
    /\ pc = "walk"
    /\ IF Len(objs) = history_len
       THEN /\ pc' = "process" /\ idx' = 1 /\ err' = err
            /\ UNCHANGED <<clock, objs, commits>>
       ELSE \/ /\ Fail("oid")
               /\ UNCHANGED <<clock, objs, commits, idx>>
            \/ /\ Fail("find")
               /\ UNCHANGED <<clock, objs, commits, idx>>
            \/ \E o \in CommitObjects : \E now \in NowReads(o.time) :
                  /\ objs' = Append(objs, o)
                  /\ clock' = now
                  /\ commits' = IF PassesFilter(git_time_to_datetime(o.time, now))
                                THEN Append(commits, Len(objs) + 1)
                                ELSE commits
                  /\ UNCHANGED <<pc, err, idx>>
    /\ UNCHANGED <<start_date_str, end_date_str, history_len, start_date, end_date,
                   opened, stats, fresh, errlog, saved, printed>>

\* analyze_repository with a per-commit error propagated by `?`
process_next_abort ==
    /\ UNCHANGED diffvars
    /\ pc = "process"
    /\ IF idx > Len(commits)
       THEN /\ pc' = "save" /\ err' = err
            /\ UNCHANGED <<clock, stats, idx, errlog>>
       ELSE \E now \in NowReads(objs[commits[idx]].time) :
               LET r == process_commit(commits[idx], now) IN
               /\ clock' = now
               /\ idx' = idx + 1
               /\ IF r.ok
                  THEN /\ stats' = Some(add_commit(stats[1], r.info))
                       /\ UNCHANGED <<pc, err, errlog>>
                  ELSE /\ Fail("process")
                       /\ UNCHANGED <<stats, errlog>>
    /\ UNCHANGED <<start_date_str, end_date_str, history_len, start_date, end_date,
                   opened, fresh, objs, commits, saved, printed>>

\* analyze_repository, lines 39-46: one iteration of `for commit_id in
\* commits`, or the end of the loop and the return of Ok(stats)
process_next ==
    /\ UNCHANGED diffvars
    /\ pc = "process"
    /\ IF idx > Len(commits)
       THEN /\ pc' = "save"
            /\ UNCHANGED <<clock, stats, idx, errlog>>
       ELSE \E now \in NowReads(objs[commits[idx]].time) :
               LET r == process_commit(commits[idx], now) IN
               /\ clock' = now
               /\ idx' = idx + 1
               /\ pc' = pc
               /\ IF r.ok
                  THEN stats' = Some(add_commit(stats[1], r.info)) /\ errlog' = errlog
                  ELSE stats' = stats /\ errlog' = Append(errlog, commits[idx])
    /\ UNCHANGED <<start_date_str, end_date_str, history_len, err, start_date, end_date,
                   opened, fresh, objs, commits, saved, printed>>

\* a driver that hands the accumulator to persistence after every commit
save_stats_each_commit ==
    /\ UNCHANGED diffvars
    /\ pc \in {"process", "save"}
    /\ Len(saved) < 2
    /\ saved' = Append(saved, stats[1])
    /\ IF pc = "save"
       THEN \/ pc' = "print" /\ err' = err
            \/ Fail("save")
       ELSE UNCHANGED <<pc, err>>
    /\ UNCHANGED <<clock, start_date_str, end_date_str, history_len, start_date, end_date,
                   opened, stats, fresh, objs, commits, idx, errlog, printed>>

\* main: db::save_stats(db_pool, &repo_stats)
save_stats ==
    /\ UNCHANGED diffvars
    /\ pc = "save"
    /\ saved' = Append(saved, stats[1])
    /\ \/ pc' = "print" /\ err' = err
       \/ Fail("save")
    /\ UNCHANGED <<clock, start_date_str, end_date_str, history_len, start_date, end_date,
                   opened, stats, fresh, objs, commits, idx, errlog, printed>>

\* main: print_summary(&repo_stats)
print_summary ==
    /\ UNCHANGED diffvars
    /\ pc = "print"
    /\ printed' = Append(printed, stats[1])
    /\ pc' = "done"
    /\ UNCHANGED <<clock, start_date_str, end_date_str, history_len, err, start_date,
                   end_date, opened, stats, fresh, objs, commits, idx, errlog, saved>>

Next ==
    \/ init_db
    \/ parse_start_date
    \/ parse_end_date
    \/ open_repository
    \/ new_stats
    \/ get_commits_begin
    \/ get_commits_next
    \/ process_next
    \/ save_stats
    \/ print_summary

Spec == Init /\ [][Next]_vars

\* ------------------------------------------- git.rs: get_commit_diff_stats
\* a line of a file: blank, or with text
FileLines == {"", "x"}

SeqsOf(S, n) == UNION {[1..k -> S] : k \in 0..n}

\* a tree, as the lines of the one file it tracks; <<>> is the empty tree
Trees == SeqsOf(FileLines, MaxTreeLines)

\* a commit as get_commit_diff_stats reads it: its tree, and the trees of
\* its parents in the order commit.parent(i) gives them
DiffCommits == [tree : Trees, parents : SeqsOf(Trees, MaxParents)]

RECURSIVE LcsLen(_, _), DiffLines(_, _)
\* length of a longest common subsequence of two files
LcsLen(a, b) ==
    IF a = <<>> \/ b = <<>> THEN 0
    ELSE IF Head(a) = Head(b) THEN 1 + LcsLen(Tail(a), Tail(b))
    ELSE IF LcsLen(Tail(a), b) >= LcsLen(a, Tail(b))
         THEN LcsLen(Tail(a), b) ELSE LcsLen(a, Tail(b))

\* the origins of the lines of a minimal diff with context_lines(0): a line
\* both files keep is not emitted, a dropped line is '-', a new line is '+'
DiffLines(a, b) ==
    IF a = <<>> THEN [i \in 1..Len(b) |-> "+"]
    ELSE IF b = <<>> THEN [i \in 1..Len(a) |-> "-"]
    ELSE IF Head(a) = Head(b) THEN DiffLines(Tail(a), Tail(b))
    ELSE IF LcsLen(Tail(a), b) >= LcsLen(a, Tail(b))
         THEN <<"-">> \o DiffLines(Tail(a), b)
         ELSE <<"+">> \o DiffLines(a, Tail(b))

\* repo.diff_tree_to_tree(old, Some(new), ..): an absent old tree is empty
diff_tree_to_tree(old, newtree) == DiffLines(UnwrapOr(old, <<>>), newtree)

\* the diff base taken from the last parent instead of the first
DiffBaseLastParent(c) ==
    IF Len(c.parents) > 0 THEN Some(c.parents[Len(c.parents)]) ELSE None

\* get_commit_diff_stats, lines 120-124: parent 0 if there is a parent
DiffBase(c) ==
    IF Len(c.parents) > 0 THEN Some(c.parents[1]) ELSE None

\* get_commit_diff_stats, lines 127-148: the diff of the commit
commit_diff(c) ==
    [ok |-> TRUE, lines |-> diff_tree_to_tree(DiffBase(c), c.tree)]

\* get_commit_diff_stats, lines 151-169: Ok((lines_added, lines_removed,
\* files_changed)); the one file is a delta when the two trees differ
DiffStatsOf(c) ==
    [ok |-> TRUE,
     lines_added |-> get_commit_diff_stats([diff |-> commit_diff(c)]).lines_added,
     lines_removed |-> get_commit_diff_stats([diff |-> commit_diff(c)]).lines_removed,
     files_changed |-> IF UnwrapOr(DiffBase(c), <<>>) = c.tree THEN 0 ELSE 1]

InitDiff ==
    /\ diff_commit \in {Some(c) : c \in DiffCommits}
    /\ diff_stats = None
    /\ clock = 0
    /\ start_date_str = None /\ end_date_str = None
    /\ history_len = 0
    /\ pc = "diff" /\ err = "none"
    /\ start_date = None /\ end_date = None
    /\ opened = FALSE
    /\ stats = None /\ fresh = None
    /\ objs = <<>> /\ commits = <<>> /\ idx = 0 /\ errlog = <<>>
    /\ saved = <<>> /\ printed = <<>>

\* one call of get_commit_diff_stats: Ok with the counts, or the Err of a
\* parent, a tree or a diff that cannot be read
call_get_commit_diff_stats ==
    /\ pc = "diff"
    /\ diff_stats = None
    /\ \/ diff_stats' = Some(DiffStatsOf(diff_commit[1]))
       \/ diff_stats' = Some([ok |-> FALSE, lines_added |-> 0, lines_removed |-> 0,
                              files_changed |-> 0])
    /\ UNCHANGED <<clock, fresh, stats, runvars, diff_commit>>

NextDiff == call_get_commit_diff_stats

SpecDiff == InitDiff /\ [][NextDiff]_vars

\* ------------------------------------------------------- reference notions
RECURSIVE SumLinesAdded(_), SumLinesRemoved(_), FoldAll(_, _)
SumLinesAdded(cs) ==
    IF cs = <<>> THEN 0 ELSE Head(cs).lines_added + SumLinesAdded(Tail(cs))

SumLinesRemoved(cs) ==
    IF cs = <<>> THEN 0 ELSE Head(cs).lines_removed + SumLinesRemoved(Tail(cs))

Dates(cs) == {cs[i].date : i \in DOMAIN cs}
MinOf(S) == CHOOSE x \in S : \A y \in S : x <= y
MaxOf(S) == CHOOSE x \in S : \A y \in S : x >= y

\* the records of cs whose author name is a
ByAuthor(cs, a) == SelectSeq(cs, LAMBDA c : c.author = a)

\* add_commit applied to each record of cs in turn
FoldAll(s, cs) ==
    IF cs = <<>> THEN s ELSE FoldAll(add_commit(s, Head(cs)), Tail(cs))

\* everything of an accumulator except the order of its commits list
Rollup(s) ==
    [total_commits |-> s.total_commits,
     total_lines_added |-> s.total_lines_added,
     total_lines_removed |-> s.total_lines_removed,
     first_commit_date |-> s.first_commit_date,
     last_commit_date |-> s.last_commit_date,
     contributors |-> s.contributors]

Reordered(cs, p) == [i \in DOMAIN cs |-> cs[p[i]]]

\* ------------------------------------------------------------------ claims
\* C1: after any sequence of add_commit calls on an accumulator built by
\* new(), total_commits is the length of the commits list and the two line
\* totals are the sums of lines_added and lines_removed over that list.
C1_TotalsMatchCommits ==
    stats # None =>
        LET s == stats[1] IN
        /\ s.total_commits = Len(s.commits)
        /\ s.total_lines_added = SumLinesAdded(s.commits)
        /\ s.total_lines_removed = SumLinesRemoved(s.commits)

C1_Witness ==
    /\ stats # None
    /\ Len(stats[1].commits) = 2
    /\ stats[1].total_lines_added = 1
    /\ stats[1].total_lines_removed = 1

\* C2 (as claimed): once a record has been folded, first_commit_date is the
\* minimum and last_commit_date the maximum date over the commits list,
\* whatever instant new() stored.
C2_FirstLastAreMinMax ==
    (stats # None /\ stats[1].total_commits >= 1) =>
        /\ stats[1].first_commit_date = MinOf(Dates(stats[1].commits))
        /\ stats[1].last_commit_date = MaxOf(Dates(stats[1].commits))

\* C5: the contributors map has exactly one entry per author name occurring
\* in the commits list, and each entry's commits, lines_added and
\* lines_removed are the count and the sums over the records of that name.
C5_ContributorsMatchCommits ==
    stats # None =>
        LET s == stats[1] IN
        /\ DOMAIN s.contributors = {s.commits[i].author : i \in DOMAIN s.commits}
        /\ \A a \in DOMAIN s.contributors :
              /\ s.contributors[a].commits = Len(ByAuthor(s.commits, a))
              /\ s.contributors[a].lines_added = SumLinesAdded(ByAuthor(s.commits, a))
              /\ s.contributors[a].lines_removed = SumLinesRemoved(ByAuthor(s.commits, a))

\* one author name folded twice under two different addresses
C5_Witness ==
    /\ stats # None
    /\ Len(stats[1].commits) = 2
    /\ stats[1].commits[1].author = stats[1].commits[2].author
    /\ stats[1].commits[1].email # stats[1].commits[2].email
    /\ stats[1].contributors[stats[1].commits[1].author].commits = 2

\* C6: after at least one add_commit, first_commit_date <= last_commit_date
\* and first_commit <= last_commit for every contributor.
C6_FirstNotAfterLast ==
    (stats # None /\ stats[1].total_commits >= 1) =>
        /\ stats[1].first_commit_date <= stats[1].last_commit_date
        /\ \A a \in DOMAIN stats[1].contributors :
              stats[1].contributors[a].first_commit <= stats[1].contributors[a].last_commit

\* a later record folded before an earlier one, both after construction time
C6_Witness ==
    /\ stats # None
    /\ Len(stats[1].commits) = 2
    /\ stats[1].commits[1].date > stats[1].commits[2].date
    /\ stats[1].commits[2].date > fresh[1].last_commit_date
    /\ stats[1].commits[1].author = stats[1].commits[2].author
    /\ stats[1].first_commit_date < stats[1].last_commit_date

\* C7: folding the records of the commits list in any other order, from the
\* accumulator new() returned, gives the same totals, the same first and last
\* dates and the same contributor rollups.
C7_OrderIndependent ==
    stats # None =>
        \A p \in Permutations(DOMAIN stats[1].commits) :
            Rollup(FoldAll(fresh[1], Reordered(stats[1].commits, p))) = Rollup(stats[1])

\* two records of one author with different dates, the later one folded last
C7_Witness ==
    /\ stats # None
    /\ Len(stats[1].commits) = 2
    /\ stats[1].commits[1].author = stats[1].commits[2].author
    /\ stats[1].commits[1].date < stats[1].commits[2].date
    /\ stats[1].commits[1].date > fresh[1].last_commit_date

\* --------------------------------------------------- claims about the run
\* analyze_repository has returned Ok(stats) to main
AnalysisOk == pc \in {"save", "print", "done"} \/ (pc = "failed" /\ err = "save")

InWindow(d) ==
    /\ (start_date # None => start_date[1] <= d)
    /\ (end_date # None => d <= end_date[1])

Recorded == {stats[1].commits[i].hash : i \in DOMAIN stats[1].commits}

\* C3 (as claimed): the recorded commits are exactly the extractable commits
\* of the walk whose date lies in [start, end], bounds inclusive and an
\* absent bound unrestricted, and every recorded date lies in the window.
C3_RecordedExactlyWindow ==
    AnalysisOk =>
        /\ \A i \in DOMAIN stats[1].commits : InWindow(stats[1].commits[i].date)
        /\ \A oid \in DOMAIN objs :
              (objs[oid].diff.ok /\ objs[oid].time \in Times) =>
                  (oid \in Recorded <=> InWindow(objs[oid].time))

\* the oids the for loop of analyze_repository has dealt with so far
Processed ==
    IF pc = "process" THEN SubSeq(commits, 1, idx - 1)
    ELSE IF AnalysisOk THEN commits ELSE <<>>

Extractable(oid) == objs[oid].diff.ok

\* C4 (amended): a failure of process_commit for one commit of the list
\* get_commits returned never ends the run: the commit is reported and
\* skipped, the loop goes on, and the accumulator is the fold, in walk order,
\* of the other processed commits, with nothing of the failed one in it.
C4_ExtractionFailureSkipped ==
    (stats # None /\ pc \in {"process", "save", "print", "done", "failed"}) =>
        LET good == SelectSeq(Processed, Extractable)
            bad == SelectSeq(Processed, LAMBDA oid : ~Extractable(oid))
            s == stats[1]
        IN /\ errlog = bad
           /\ Len(s.commits) = Len(good)
           /\ \A k \in DOMAIN good :
                 /\ s.commits[k].hash = good[k]
                 /\ s.commits[k].author = UnwrapOr(objs[good[k]].name, "Unknown")
                 /\ s.commits[k].lines_added = get_commit_diff_stats(objs[good[k]]).lines_added
                 /\ s.commits[k].lines_removed = get_commit_diff_stats(objs[good[k]]).lines_removed
                 /\ (objs[good[k]].time \in Times => s.commits[k].date = objs[good[k]].time)
           /\ s = FoldAll(fresh[1], s.commits)
           /\ (pc = "failed" => err \in {"revwalk", "head", "oid", "find", "save"})
           /\ (errlog # <<>> /\ pc = "failed" => err = "save")

\* the first commit of the list failed in process_commit, the second was folded
C4_Witness ==
    /\ AnalysisOk
    /\ Len(commits) = 2
    /\ errlog = <<commits[1]>>
    /\ stats[1].total_commits = 1
    /\ stats[1].commits[1].hash = commits[2]

\* C4 (as claimed): no failure that concerns one commit only ends the run,
\* a commit object that cannot be resolved included.
C4_NoCommitFailureAborts ==
    /\ C4_ExtractionFailureSkipped
    /\ ~(pc = "failed" /\ err = "find")

\* a string that is a date in the form YYYY-MM-DD
IsYmdDate(s) == s.sep = "-" /\ s.m >= 1 /\ s.m <= 12 /\ s.d >= 1 /\ s.d <= DaysInMonth(s.y, s.m)

BadDateArg(arg) == arg # None /\ ~IsYmdDate(arg[1])

\* C8: with a start or end string that is no YYYY-MM-DD date the run ends in
\* a date-parse error before the repository is opened: no accumulator is
\* constructed, no commit walked or folded, nothing handed to save_stats.
C8_BadDateFailsBeforeOpen ==
    (BadDateArg(start_date_str) \/ BadDateArg(end_date_str)) =>
        /\ opened = FALSE
        /\ stats = None
        /\ objs = <<>> /\ commits = <<>>
        /\ saved = <<>> /\ printed = <<>>
        /\ pc \in {"init_db", "parse_start", "parse_end", "failed"}
        /\ (pc = "failed" => err \in {"db", "date"})
        /\ (pc = "parse_end" => ~BadDateArg(start_date_str))

\* a good start string was parsed, the end string was rejected
C8_Witness ==
    /\ start_date # None
    /\ BadDateArg(end_date_str)
    /\ pc = "failed" /\ err = "date"

\* C9 (as claimed): analysing a repository with zero commits gives an
\* accumulator with total_commits 0, no contributors and no commits, and no
\* error on account of the repository being empty.
C9_EmptyRepositoryGivesEmptyStats ==
    history_len = 0 =>
        /\ (pc = "failed" => err \in {"db", "date", "open", "revwalk", "save"})
        /\ (AnalysisOk =>
              /\ stats[1].total_commits = 0
              /\ DOMAIN stats[1].contributors = {}
              /\ stats[1].commits = <<>>)

\* C10: save_stats is called at most once, only after the walk and the fold
\* of every listed commit have completed, and before print_summary; the
\* accumulator stays as it was handed over; after a fatal error of
\* init_db or analyze_repository save_stats is never called.
C10_SavedOnceAfterAnalysis ==
    /\ Len(saved) <= 1
    /\ Len(printed) <= 1
    /\ saved # <<>> =>
          /\ stats # None /\ saved[1] = stats[1]
          /\ Len(objs) = history_len
          /\ idx = Len(commits) + 1
          /\ pc \in {"print", "done", "failed"}
          /\ (pc = "failed" => err = "save")
    /\ printed # <<>> => (saved # <<>> /\ printed[1] = saved[1] /\ pc = "done")
    /\ pc \in {"print", "done"} => Len(saved) = 1
    /\ (pc = "failed" /\ err # "save") => saved = <<>>

\* saved and printed after a run that folded a commit and skipped another
C10_Witness ==
    /\ pc = "done"
    /\ Len(saved) = 1 /\ Len(printed) = 1
    /\ saved[1].total_commits = 1
    /\ Len(objs) = 2

\* ----------------------------------- claims about get_commit_diff_stats
DiffReturnedOk == diff_stats # None /\ diff_stats[1].ok

NonBlankLines(tree) == Len(SelectSeq(tree, LAMBDA l : l # ""))

\* the commit c with parent 0 as its only parent
WithoutFurtherParents(c) == [c EXCEPT !.parents = <<c.parents[1]>>]

\* for a commit with parents the counts are those of the diff against
\* parent 0, the same as if it had no further parent
FirstParentOnly ==
    LET c == diff_commit[1] IN
    c.parents # <<>> =>
        /\ diff_stats[1].lines_added = Len(c.tree) - LcsLen(c.parents[1], c.tree)
        /\ diff_stats[1].lines_removed = Len(c.parents[1]) - LcsLen(c.parents[1], c.tree)
        /\ DiffStatsOf(WithoutFurtherParents(c)) = diff_stats[1]

\* C11 (amended): for a root commit the diff is taken against an empty tree:
\* lines_removed is 0 and lines_added is the number of lines the commit
\* adds, blank lines included; for a commit with parents only parent 0 is
\* the diff base and further parents have no influence on the counts.
C11_RootCountsAllLines ==
    DiffReturnedOk =>
        /\ (diff_commit[1].parents = <<>> =>
              /\ diff_stats[1].lines_removed = 0
              /\ diff_stats[1].lines_added = Len(diff_commit[1].tree))
        /\ FirstParentOnly

\* a root commit that adds a blank line and a line of text
C11_Witness ==
    /\ DiffReturnedOk
    /\ diff_commit[1].parents = <<>>
    /\ diff_commit[1].tree = <<"x", "">>
    /\ diff_stats[1].lines_added = 2
    /\ diff_stats[1].lines_removed = 0

\* C11 (as claimed): for a root commit lines_removed is 0 and lines_added is
\* the number of non-blank lines the commit adds; for a commit with parents
\* only parent 0 is the diff base.
C11_RootCountsNonBlankLines ==
    DiffReturnedOk =>
        /\ (diff_commit[1].parents = <<>> =>
              /\ diff_stats[1].lines_removed = 0
              /\ diff_stats[1].lines_added = NonBlankLines(diff_commit[1].tree))
        /\ FirstParentOnly

====
